---- MODULE Spec2Model ----
(***************************************************************************)
(* A model of pkg/etcd/s3.go: the S3-backed etcd snapshot repository of    *)
(* k3s.  The bucket is a set of objects; every method of S3 is one or more *)
(* actions over it.  Strings are sequences of one-character strings so     *)
(* that path.Base, path.Join, strings.CutSuffix, strings.LastIndexByte and *)
(* strconv.ParseInt are computed, not assumed.                             *)
(***************************************************************************)
EXTENDS Integers, Sequences, FiniteSets, TLC

VARIABLES
    config,      \* the *config.Control the S3 value points to
    bucket,      \* the objects of the bucket: a set of minio.ObjectInfo
    everPresent, \* history: every key that was ever in the bucket
    calls,       \* history: the network calls made, each with its context
    rpc,         \* snapshotRetention, per node: position in the method
    rFiles,      \* snapshotRetention, per node: the slice snapshotFiles
    rIdx,        \* snapshotRetention, per node: index of the next delete
    rErr,        \* snapshotRetention, per node: the returned error
    rDeleted,    \* history, per node: keys the current run removed
    rFailedAt,   \* history, per node: index of the delete that failed, or 0
    rStart,      \* history, per node: the bucket when the run started
    afterRun,    \* history: the bucket as the last clean run left it
    upRec,       \* upload: the record and error it returned last, the local
                 \* file it was given and the key it stored it under
    lsRes,       \* listSnapshots: the map and error it returned last
    uploads,     \* the number of uploads made, which the model bounds
    localFiles,  \* the files of the local disk: path, size and mode of each
    dl,          \* Download: its position, its locals and what it returned
    defaultTransport, \* http.DefaultTransport, the one transport of the
                 \* process: its TLSClientConfig
    handles,     \* the *S3 values NewS3 has returned, in the order returned
    ns           \* NewS3: its position, its locals and what it returned

retVars == <<rpc, rFiles, rIdx, rErr, rDeleted, rFailedAt, rStart, afterRun>>

dlVars == <<localFiles, dl>>

nsVars == <<defaultTransport, handles, ns>>

vars == <<config, bucket, everPresent, calls, rpc, rFiles, rIdx, rErr,
          rDeleted, rFailedAt, rStart, afterRun, upRec, lsRes, uploads,
          localFiles, dl, defaultTransport, handles, ns>>

----------------------------------------------------------------------------
(* Bounds of the model. *)

MaxSec == 2
MaxRetention == 2
MaxUploads == 1
MaxStemLen == 2
MaxDownloads == 2

----------------------------------------------------------------------------
(* Strings. *)

Str1(a) == <<a>>

HasPrefix(s, p) ==
    /\ Len(p) <= Len(s)
    /\ SubSeq(s, 1, Len(p)) = p

HasSuffix(s, x) ==
    /\ Len(x) <= Len(s)
    /\ SubSeq(s, Len(s) - Len(x) + 1, Len(s)) = x

\* strings.CutSuffix: the string without the suffix, and whether it was there
CutSuffix(s, x) ==
    IF HasSuffix(s, x)
    THEN [before |-> SubSeq(s, 1, Len(s) - Len(x)), found |-> TRUE]
    ELSE [before |-> s, found |-> FALSE]

\* strings.LastIndexByte: the 0-based index of the last c in s, or -1
LastIndexByte(s, c) ==
    LET at == {i \in 1..Len(s) : s[i] = c}
    IN  IF at = {} THEN -1
        ELSE (CHOOSE i \in at : \A j \in at : j <= i) - 1

\* the Go slice expression s[i:], i a 0-based index
SliceFrom(s, i) == SubSeq(s, i + 1, Len(s))

\* the path elements of s between slashes, empty ones included
RECURSIVE SplitSlash(_)
SplitSlash(s) ==
    LET i == LastIndexByte(s, "/")
    IN  IF i = -1 THEN <<s>>
        ELSE Append(SplitSlash(SubSeq(s, 1, i)), SliceFrom(s, i + 1))

\* path.Clean's pass over the elements: "" and "." are dropped, ".." removes
\* the element before it (at the root it is dropped, at the start it stays)
RECURSIVE CleanElems(_, _, _)
CleanElems(elems, out, rooted) ==
    IF elems = <<>> THEN out
    ELSE LET e == Head(elems)
             rest == Tail(elems)
         IN  IF e = <<>> \/ e = <<".">> THEN CleanElems(rest, out, rooted)
             ELSE IF e = <<".", ".">>
             THEN IF out # <<>> /\ out[Len(out)] # <<".", ".">>
                  THEN CleanElems(rest, SubSeq(out, 1, Len(out) - 1), rooted)
                  ELSE IF rooted THEN CleanElems(rest, out, rooted)
                  ELSE CleanElems(rest, Append(out, e), rooted)
             ELSE CleanElems(rest, Append(out, e), rooted)

RECURSIVE JoinSlash(_)
JoinSlash(elems) ==
    IF elems = <<>> THEN <<>>
    ELSE IF Len(elems) = 1 THEN elems[1]
    ELSE elems[1] \o <<"/">> \o JoinSlash(Tail(elems))

\* path.Clean
Clean(s) ==
    IF s = <<>> THEN <<".">>
    ELSE LET rooted == s[1] = "/"
             body == JoinSlash(CleanElems(SplitSlash(s), <<>>, rooted))
         IN  IF rooted THEN <<"/">> \o body
             ELSE IF body = <<>> THEN <<".">> ELSE body

\* path.Join of two elements: empty elements are ignored, the rest is cleaned
PathJoin(a, b) ==
    IF a = <<>> /\ b = <<>> THEN <<>>
    ELSE IF a = <<>> THEN Clean(b)
    ELSE Clean(a \o <<"/">> \o b)

RECURSIVE StripSlashes(_)
StripSlashes(s) ==
    IF s # <<>> /\ s[Len(s)] = "/" THEN StripSlashes(SubSeq(s, 1, Len(s) - 1))
    ELSE s

\* path.Base (filepath.Base on a Unix build)
Base(p) ==
    IF p = <<>> THEN <<".">>
    ELSE LET q == StripSlashes(p)
             r == SliceFrom(q, LastIndexByte(q, "/") + 1)
         IN  IF r = <<>> THEN <<"/">> ELSE r

----------------------------------------------------------------------------
(* strconv.ParseInt(s, 10, 64). *)

Digits == {"0", "1", "2", "3", "4", "5", "6", "7", "8", "9"}

DigitVal(c) ==
    CASE c = "0" -> 0 [] c = "1" -> 1 [] c = "2" -> 2 [] c = "3" -> 3
      [] c = "4" -> 4 [] c = "5" -> 5 [] c = "6" -> 6 [] c = "7" -> 7
      [] c = "8" -> 8 [] c = "9" -> 9

\* the decimal digits of 1<<63, the cutoff of a 64-bit signed integer
Int64Cutoff ==
    <<"9", "2", "2", "3", "3", "7", "2", "0", "3", "6", "8", "5", "4", "7",
      "7", "5", "8", "0", "8">>

RECURSIVE StripZeros(_)
StripZeros(d) ==
    IF d # <<>> /\ d[1] = "0" THEN StripZeros(Tail(d)) ELSE d

\* a < b for digit strings without leading zeros
RECURSIVE DigitsLess(_, _)
DigitsLess(a, b) ==
    IF Len(a) # Len(b) THEN Len(a) < Len(b)
    ELSE IF a = <<>> THEN FALSE
    ELSE IF a[1] # b[1] THEN DigitVal(a[1]) < DigitVal(b[1])
    ELSE DigitsLess(Tail(a), Tail(b))

RECURSIVE DigitsValue(_)
DigitsValue(d) ==
    IF d = <<>> THEN 0
    ELSE 10 * DigitsValue(SubSeq(d, 1, Len(d) - 1)) + DigitVal(d[Len(d)])

\* ParseInt: an optional sign, then one or more decimal digits; a value
\* outside [-(1<<63), 1<<63 - 1] is a range error.  The values of the
\* numerals drawn here fit the integers of the checker; the range test is
\* made on the digits.
ParseInt(s) ==
    LET neg == s # <<>> /\ s[1] = "-"
        signed == s # <<>> /\ s[1] \in {"+", "-"}
        d == IF signed THEN Tail(s) ELSE s
        n == StripZeros(d)
    IN  IF s = <<>> \/ d = <<>> \/ \E i \in 1..Len(d) : d[i] \notin Digits
        THEN [err |-> "ErrSyntax", val |-> 0]
        ELSE IF ~neg /\ ~DigitsLess(n, Int64Cutoff)
        THEN [err |-> "ErrRange", val |-> 0]
        ELSE IF neg /\ DigitsLess(Int64Cutoff, n)
        THEN [err |-> "ErrRange", val |-> 0]
        ELSE [err |-> "nil", val |-> IF neg THEN -DigitsValue(n) ELSE DigitsValue(n)]

----------------------------------------------------------------------------
(* Time: a time.Time is seconds since the epoch and nanoseconds within the *)
(* second.                                                                 *)

\* half of the 1000000000 nanoseconds of a second
HalfSecond == 1000000000 \div 2

Time(sec, nsec) == [sec |-> sec, nsec |-> nsec]

\* t.Before(u)
Before(t, u) == t.sec < u.sec \/ (t.sec = u.sec /\ t.nsec < u.nsec)

\* t.Unix()
Unix(t) == t.sec

\* time.Unix(sec, 0)
TimeUnix(sec) == Time(sec, 0)

\* the zero time.Time
NoTime == Time(0, 0)

\* the stamps of a store that keeps whole seconds
WholeSeconds == {Time(sec, 0) : sec \in 1..MaxSec}

\* the last-modified stamps a store may report
Times == {Time(sec, nsec) : sec \in 1..MaxSec, nsec \in {0, HalfSecond}}

----------------------------------------------------------------------------
(* Contexts.  A context is known by how it was derived and by the deadline *)
(* it carries.                                                             *)

\* the ctx argument of a method: whatever deadline the caller gave it
CallerCtx == [derived |-> "none", deadline |-> "caller"]

\* context.WithTimeout(parent, s.config.EtcdS3Timeout)
WithTimeout(parent) == [derived |-> "WithTimeout", deadline |-> "EtcdS3Timeout"]

\* context.WithCancel(parent): a new context with the parent's deadline
WithCancel(parent) == [derived |-> "WithCancel", deadline |-> parent.deadline]

Call(op, method, ctx) == [op |-> op, method |-> method, ctx |-> ctx]

----------------------------------------------------------------------------
(* The bucket and the client calls on it. *)

ObjectInfo(key, size, lastModified) ==
    [Key |-> key, Size |-> size, LastModified |-> lastModified]

KeysOf(objs) == {o.Key : o \in objs}

\* the key up to and including the first slash after the prefix
CommonPrefix(key, prefix) ==
    LET rest == SliceFrom(key, Len(prefix))
        at == CHOOSE i \in 1..Len(rest) :
                  rest[i] = "/" /\ \A j \in 1..(i - 1) : rest[j] # "/"
    IN  prefix \o SubSeq(rest, 1, at)

\* client.ListObjects: with Recursive every object whose key starts with the
\* prefix; without it the objects directly under the prefix, and one entry
\* of size 0 for every common prefix (the keys are cut at the next slash).
ListObjects(objs, prefix, recursive) ==
    LET under == {o \in objs : HasPrefix(o.Key, prefix)}
        nested(o) == \E i \in (Len(prefix) + 1)..Len(o.Key) : o.Key[i] = "/"
    IN  IF recursive THEN under
        ELSE {o \in under : ~nested(o)}
             \cup {ObjectInfo(CommonPrefix(o.Key, prefix), 0, NoTime) :
                     o \in {x \in under : nested(x)}}

\* client.RemoveObject, when it succeeds: the key is gone (it may have been
\* gone already)
RemoveObject(objs, key) == {o \in objs : o.Key # key}

\* client.FPutObject, when it succeeds: the key holds the new object
PutObject(objs, key, size, lastModified) ==
    {o \in objs : o.Key # key} \cup {ObjectInfo(key, size, lastModified)}

\* the byte of a character, for the characters of the keys drawn here
CharCode(c) ==
    CASE c = "+" -> 43 [] c = "-" -> 45 [] c = "." -> 46 [] c = "/" -> 47
      [] c \in Digits -> 48 + DigitVal(c)
      [] c = "d" -> 100 [] c = "f" -> 102 [] c = "i" -> 105 [] c = "p" -> 112
      [] c = "s" -> 115 [] c = "t" -> 116 [] c = "v" -> 118 [] c = "z" -> 122

\* a < b in byte order
RECURSIVE KeyLess(_, _)
KeyLess(a, b) ==
    IF b = <<>> THEN FALSE
    ELSE IF a = <<>> THEN TRUE
    ELSE IF a[1] # b[1] THEN CharCode(a[1]) < CharCode(b[1])
    ELSE KeyLess(Tail(a), Tail(b))

\* the channel ListObjects returns: the store lists keys in byte order
RECURSIVE InKeyOrder(_)
InKeyOrder(objs) ==
    IF objs = {} THEN <<>>
    ELSE LET first == CHOOSE o \in objs :
                          \A x \in objs : x.Key # o.Key => KeyLess(o.Key, x.Key)
         IN  <<first>> \o InKeyOrder(objs \ {first})

\* the orders a sort may leave a set of objects in
Orders(objs) ==
    {f \in [1..Cardinality(objs) -> objs] :
        \A i, j \in 1..Cardinality(objs) : i # j => f[i] # f[j]}

----------------------------------------------------------------------------
(* snapshotRetention. *)

Nodes == {"n1", "n2"}

\* snapshotPrefix
snapshotPrefix == PathJoin(config.EtcdS3Folder, config.EtcdSnapshotName)

\* a sort with the comparison turned round: oldest first
SortOldestFirst(objs) ==
    {f \in Orders(objs) :
        \A i, j \in 1..Len(f) : i < j => ~Before(f[j].LastModified, f[i].LastModified)}

\* sort.Slice with less(i, j) = files[j].LastModified.Before(files[i].
\* LastModified): newest first; the sort is not stable, so objects with
\* equal stamps may come out in any order.
SortNewestFirst(objs) ==
    {f \in Orders(objs) :
        \A i, j \in 1..Len(f) : i < j => ~Before(f[i].LastModified, f[j].LastModified)}

NoRun == [clean |-> FALSE, bucket |-> {}, deleted |-> {}]

\* a slice that starts one file early
FirstPrunedEarly == config.EtcdSnapshotRetention

\* the index (from 1) of the first file the delete loop visits: the slice
\* snapshotFiles[EtcdSnapshotRetention:]
FirstPruned == config.EtcdSnapshotRetention + 1

\* lines 190-213: the retention check, the listing and the early returns
RetentionList(n) ==
    /\ rpc[n] = "idle"
    /\ rStart' = [rStart EXCEPT ![n] = bucket]
    /\ rDeleted' = [rDeleted EXCEPT ![n] = {}]
    /\ rFailedAt' = [rFailedAt EXCEPT ![n] = 0]
    /\ rIdx' = [rIdx EXCEPT ![n] = FirstPruned]
    /\ IF config.EtcdSnapshotRetention < 1
       THEN /\ rpc' = [rpc EXCEPT ![n] = "done"]
            /\ rErr' = [rErr EXCEPT ![n] = "nil"]
            /\ rFiles' = [rFiles EXCEPT ![n] = <<>>]
            /\ UNCHANGED calls
       ELSE /\ calls' = calls \cup
                  {Call("ListObjects", "snapshotRetention", WithTimeout(CallerCtx))}
            /\ \E listErr \in BOOLEAN :
                 LET listed == ListObjects(bucket, snapshotPrefix, TRUE)
                 IN  IF listErr
                     THEN /\ rpc' = [rpc EXCEPT ![n] = "done"]
                          /\ rErr' = [rErr EXCEPT ![n] = "ListErr"]
                          /\ rFiles' = [rFiles EXCEPT ![n] = <<>>]
                     ELSE IF Cardinality(listed) <= config.EtcdSnapshotRetention
                     THEN /\ rpc' = [rpc EXCEPT ![n] = "done"]
                          /\ rErr' = [rErr EXCEPT ![n] = "nil"]
                          /\ rFiles' = [rFiles EXCEPT ![n] = InKeyOrder(listed)]
                     ELSE /\ rpc' = [rpc EXCEPT ![n] = "deleting"]
                          /\ rErr' = [rErr EXCEPT ![n] = "nil"]
                          /\ \E f \in SortNewestFirst(listed) :
                               rFiles' = [rFiles EXCEPT ![n] = f]
    /\ UNCHANGED <<config, bucket, everPresent, afterRun>>

\* lines 220-227: one pass of the delete loop, and the return after the last
RetentionDelete(n) ==
    /\ rpc[n] = "deleting"
    /\ LET i == rIdx[n]
           df == rFiles[n][i]
       IN  /\ calls' = calls \cup {Call("RemoveObject", "snapshotRetention", CallerCtx)}
           /\ \E removeErr \in BOOLEAN :
                IF removeErr
                THEN /\ rpc' = [rpc EXCEPT ![n] = "done"]
                     /\ rErr' = [rErr EXCEPT ![n] = "RemoveErr"]
                     /\ rFailedAt' = [rFailedAt EXCEPT ![n] = i]
                     /\ UNCHANGED <<bucket, rDeleted, rIdx>>
                ELSE /\ bucket' = RemoveObject(bucket, df.Key)
                     /\ rDeleted' = [rDeleted EXCEPT ![n] = @ \cup {df.Key}]
                     /\ rIdx' = [rIdx EXCEPT ![n] = i + 1]
                     /\ rpc' = [rpc EXCEPT ![n] =
                                  IF i = Len(rFiles[n]) THEN "done" ELSE "deleting"]
                     /\ UNCHANGED <<rErr, rFailedAt>>
    /\ UNCHANGED <<config, everPresent, rFiles, rStart, afterRun>>

\* the caller has the result; the node may call snapshotRetention again
RetentionReturn(n) ==
    /\ rpc[n] = "done"
    /\ rpc' = [rpc EXCEPT ![n] = "idle"]
    /\ afterRun' = IF rErr[n] = "nil"
                   THEN [clean |-> TRUE, bucket |-> bucket, deleted |-> rDeleted[n]]
                   ELSE NoRun
    /\ UNCHANGED <<config, bucket, everPresent, calls, rFiles, rIdx, rErr,
                   rDeleted, rFailedAt, rStart>>

----------------------------------------------------------------------------
(* The configuration and the snapshot records. *)

compressedExtension == <<".", "z", "i", "p">>
successfulSnapshotStatus == "successful"
failedSnapshotStatus == "failed"

\* the folders a configuration may name: none, or "f"
Folders == {<<>>, <<"f">>}

\* the fields of config.Control this file reads
Control(folder, retention, restorePath) ==
    [EtcdS3Endpoint |-> "s3.example.com",
     EtcdS3EndpointCA |-> "",
     EtcdS3SkipSSLVerify |-> FALSE,
     EtcdS3BucketName |-> "backups",
     EtcdS3Region |-> "us-east-1",
     EtcdS3Folder |-> folder,
     EtcdS3Insecure |-> FALSE,
     EtcdSnapshotName |-> <<"s">>,
     EtcdSnapshotRetention |-> retention,
     ClusterResetRestorePath |-> restorePath]

\* the s3Config both upload and listSnapshots embed in a record
s3ConfigOf(c) ==
    [Endpoint |-> c.EtcdS3Endpoint,
     EndpointCA |-> c.EtcdS3EndpointCA,
     SkipSSLVerify |-> c.EtcdS3SkipSSLVerify,
     Bucket |-> c.EtcdS3BucketName,
     Region |-> c.EtcdS3Region,
     Folder |-> c.EtcdS3Folder,
     Insecure |-> c.EtcdS3Insecure]

\* the 64 characters of base64.StdEncoding, in the order of their values
EncodeStd ==
    <<"A", "B", "C", "D", "E", "F", "G", "H", "I", "J", "K", "L", "M", "N", "O", "P",
      "Q", "R", "S", "T", "U", "V", "W", "X", "Y", "Z", "a", "b", "c", "d", "e", "f",
      "g", "h", "i", "j", "k", "l", "m", "n", "o", "p", "q", "r", "s", "t", "u", "v",
      "w", "x", "y", "z", "0", "1", "2", "3", "4", "5", "6", "7", "8", "9", "+", "/">>

\* the character of a 6-bit value
Sextet(v) == EncodeStd[v + 1]

\* []byte(s): the bytes of a string
RECURSIVE BytesOf(_)
BytesOf(s) ==
    IF s = <<>> THEN <<>> ELSE <<CharCode(Head(s))>> \o BytesOf(Tail(s))

\* Encode: every 3 bytes give 4 characters; 1 or 2 bytes left over give 2 or
\* 3 characters and the padding "=" up to 4
RECURSIVE EncodeBytes(_)
EncodeBytes(src) ==
    IF src = <<>> THEN <<>>
    ELSE IF Len(src) = 1
    THEN LET val == src[1] * 65536
         IN  <<Sextet(val \div 262144), Sextet((val \div 4096) % 64), "=", "=">>
    ELSE IF Len(src) = 2
    THEN LET val == src[1] * 65536 + src[2] * 256
         IN  <<Sextet(val \div 262144), Sextet((val \div 4096) % 64),
               Sextet((val \div 64) % 64), "=">>
    ELSE LET val == src[1] * 65536 + src[2] * 256 + src[3]
         IN  <<Sextet(val \div 262144), Sextet((val \div 4096) % 64),
               Sextet((val \div 64) % 64), Sextet(val % 64)>>
             \o EncodeBytes(SubSeq(src, 4, Len(src)))

\* a message left as plain text
MessagePlain(text) == text

\* base64.StdEncoding.EncodeToString([]byte(text))
EncodeToString(text) == EncodeBytes(BytesOf(text))

\* the 6-bit value of a character of the encoding
SextetOf(c) == (CHOOSE i \in 1..64 : EncodeStd[i] = c) - 1

InEncodeStd(c) == \E i \in 1..64 : EncodeStd[i] = c

\* the input without the line breaks, which the decoder skips
RECURSIVE WithoutNewlines(_)
WithoutNewlines(s) ==
    IF s = <<>> THEN <<>>
    ELSE IF Head(s) \in {"\n", "\r"} THEN WithoutNewlines(Tail(s))
    ELSE <<Head(s)>> \o WithoutNewlines(Tail(s))

\* one group of 4 characters is well formed: 4 characters of the encoding,
\* or, in the last group only, 3 and "=" or 2 and "=="
QuantumOk(q, last) ==
    /\ InEncodeStd(q[1])
    /\ InEncodeStd(q[2])
    /\ \/ InEncodeStd(q[3]) /\ InEncodeStd(q[4])
       \/ last /\ InEncodeStd(q[3]) /\ q[4] = "="
       \/ last /\ q[3] = "=" /\ q[4] = "="

\* the 3, 2 or 1 bytes of one group
QuantumBytes(q) ==
    LET v3 == IF q[3] = "=" THEN 0 ELSE SextetOf(q[3])
        v4 == IF q[4] = "=" THEN 0 ELSE SextetOf(q[4])
        val == SextetOf(q[1]) * 262144 + SextetOf(q[2]) * 4096 + v3 * 64 + v4
        b1 == val \div 65536
        b2 == (val \div 256) % 256
        b3 == val % 256
    IN  IF q[3] = "=" THEN <<b1>>
        ELSE IF q[4] = "=" THEN <<b1, b2>>
        ELSE <<b1, b2, b3>>

RECURSIVE QuantaOk(_)
QuantaOk(t) ==
    IF t = <<>> THEN TRUE
    ELSE /\ QuantumOk(SubSeq(t, 1, 4), Len(t) = 4)
         /\ QuantaOk(SubSeq(t, 5, Len(t)))

RECURSIVE QuantaBytes(_)
QuantaBytes(t) ==
    IF t = <<>> THEN <<>>
    ELSE QuantumBytes(SubSeq(t, 1, 4)) \o QuantaBytes(SubSeq(t, 5, Len(t)))

\* base64.StdEncoding.DecodeString: the bytes, or a CorruptInputError
DecodeString(s) ==
    LET t == WithoutNewlines(s)
    IN  IF Len(t) % 4 # 0 \/ ~QuantaOk(t)
        THEN [err |-> "CorruptInputError", val |-> <<>>]
        ELSE [err |-> "nil", val |-> QuantaBytes(t)]

NoUpload == [ran |-> FALSE]
NoListing == [ran |-> FALSE]
NoDownload ==
    [pc |-> "idle", err |-> "nil", key |-> <<>>, path |-> <<>>, size |-> 0,
     missing |-> FALSE, fetchFailed |-> FALSE, startFiles |-> {},
     startPath |-> <<>>, runs |-> 0]

IdleDownload ==
    /\ localFiles = {}
    /\ dl = NoDownload

\* a *tls.Config that was never set
NoTLS == <<>>

NoNewS3 ==
    [pc |-> "idle", config |-> <<>>, client |-> <<>>, err |-> "nil",
     handle |-> <<>>, checked |-> "no", startTransport |-> NoTLS,
     startCalls |-> {}, opens |-> 0]

IdleNewS3 ==
    /\ defaultTransport = NoTLS
    /\ handles = <<>>
    /\ ns = NoNewS3

----------------------------------------------------------------------------
(* upload. *)

\* lines 98-139: the record, the key, the transfer, the outcome.  errText is
\* err.Error() of the error FPutObject returns when putErr is set.
Upload(snapshot, size, now, lastModified, putErr, errText) ==
    LET basename == Base(snapshot)
        snapshotKey == PathJoin(config.EtcdS3Folder, basename)
        sf == [Name |-> basename,
               NodeName |-> "s3",
               CreatedAt |-> now,
               Size |-> IF putErr THEN 0 ELSE size,
               S3 |-> s3ConfigOf(config),
               Status |-> IF putErr THEN failedSnapshotStatus
                          ELSE successfulSnapshotStatus,
               Message |-> IF putErr THEN EncodeToString(errText) ELSE <<>>,
               Compressed |-> HasSuffix(snapshot, compressedExtension)]
    IN  /\ calls' = calls \cup {Call("FPutObject", "upload", WithTimeout(CallerCtx))}
        /\ upRec' = [ran |-> TRUE, sf |-> sf, err |-> IF putErr THEN "PutErr" ELSE "nil",
                     errText |-> IF putErr THEN errText ELSE <<>>,
                     snapshot |-> snapshot, size |-> size, key |-> snapshotKey]
        /\ lsRes' = NoListing
        /\ uploads' = uploads + 1
        /\ IF putErr
           THEN UNCHANGED <<bucket, everPresent>>
           ELSE /\ bucket' = PutObject(bucket, snapshotKey, size, lastModified)
                /\ everPresent' = everPresent \cup {snapshotKey}
        /\ UNCHANGED config

----------------------------------------------------------------------------
(* listSnapshots. *)

\* generateSnapshotConfigMapKey: the key of a record in the result map,
\* derived from the record's origin and name
generateSnapshotConfigMapKey(sf) == [NodeName |-> sf.NodeName, Name |-> sf.Name]

\* lines 238-244: the listing options
ListPrefix == config.EtcdS3Folder
ListRecursive == config.EtcdS3Folder # <<>>

\* a name that keeps the folders of the key
ListedNameWhole(obj) == obj.Key

\* line 256: the name of a listed object
ListedName(obj) == Base(obj.Key)

\* a text cut from the name with its extension still on
TimestampTextUncut(filename) ==
    SliceFrom(filename, LastIndexByte(filename, "-") + 1)

\* line 258: the text ParseInt is given
TimestampText(filename) ==
    LET basename == CutSuffix(filename, compressedExtension).before
    IN  SliceFrom(basename, LastIndexByte(basename, "-") + 1)

\* lines 258-261: the timestamp of a listed object, in seconds
ListedTimestamp(obj) ==
    LET parsed == ParseInt(TimestampText(ListedName(obj)))
    IN  IF parsed.err # "nil" THEN Unix(obj.LastModified) ELSE parsed.val

\* lines 256-281: the record of a listed object
ListedRecord(obj) ==
    [Name |-> ListedName(obj),
     NodeName |-> "s3",
     CreatedAt |-> TimeUnix(ListedTimestamp(obj)),
     Size |-> obj.Size,
     S3 |-> s3ConfigOf(config),
     Status |-> successfulSnapshotStatus,
     Message |-> <<>>,
     Compressed |-> CutSuffix(ListedName(obj), compressedExtension).found]

\* line 283: snapshots[sfKey] = sf
MapPut(m, k, v) == [x \in DOMAIN m \cup {k} |-> IF x = k THEN v ELSE m[x]]

\* lines 248-284: the loop over the objects received, in their order
RECURSIVE BuildSnapshots(_, _)
BuildSnapshots(objects, snapshots) ==
    IF objects = <<>> THEN snapshots
    ELSE LET obj == Head(objects)
         IN  IF obj.Size = 0 THEN BuildSnapshots(Tail(objects), snapshots)
             ELSE BuildSnapshots(Tail(objects),
                      MapPut(snapshots,
                             generateSnapshotConfigMapKey(ListedRecord(obj)),
                             ListedRecord(obj)))

EmptyMap == [x \in {} |-> {}]

\* a return that hands back the records gathered before the error
SnapshotsGathered(received, failed) == <<BuildSnapshots(received, EmptyMap)>>

\* lines 249-251 and 285: nil and the error when an entry carries one, the
\* map otherwise
SnapshotsReturned(received, failed) ==
    IF failed THEN <<>> ELSE <<BuildSnapshots(received, EmptyMap)>>

\* lines 233-286.  errAt is the place in the channel of the entry that
\* carries an error, 0 when none does; the entries before it were received.
ListSnapshots ==
    /\ calls' = calls \cup {Call("ListObjects", "listSnapshots", WithCancel(CallerCtx))}
    /\ LET objects == InKeyOrder(ListObjects(bucket, ListPrefix, ListRecursive))
       IN  \E errAt \in 0..(Len(objects) + 1) :
             LET received == IF errAt = 0 THEN objects
                             ELSE SubSeq(objects, 1, errAt - 1)
             IN  lsRes' = [ran |-> TRUE,
                           listed |-> {objects[i] : i \in 1..Len(objects)},
                           err |-> IF errAt = 0 THEN "nil" ELSE "ListErr",
                           snapshots |-> SnapshotsReturned(received, errAt # 0),
                           built |-> {[obj |-> received[i],
                                       sf |-> ListedRecord(received[i])] :
                                        i \in {j \in 1..Len(received) :
                                                 received[j].Size # 0}}]
    /\ UNCHANGED <<config, bucket, everPresent, upRec, uploads>>

----------------------------------------------------------------------------
(* Retention runs: one node at a time, or every node at once. *)

\* the snapshot files of the retention runs: three carry the snapshot name
RetNames == {<<"s", "-", "1">>, <<"s", "-", "2">>, <<"s", "-", "3">>, <<"t", "-", "1">>}

LocalDir == <<"/", "v">>

LocalPath(name) == LocalDir \o <<"/">> \o name

\* a stamp the store may give a new object: its clock does not run behind
\* the objects it holds
StampsAfter(objs) ==
    {t \in WholeSeconds : \A o \in objs : ~Before(t, o.LastModified)}

RetInit ==
    /\ \E folder \in {<<"f">>}, retention \in 0..MaxRetention :
         config = Control(folder, retention, <<>>)
    /\ \E stamp \in [RetNames -> WholeSeconds \cup {NoTime}] :
         bucket = {ObjectInfo(PathJoin(config.EtcdS3Folder, name), 1, stamp[name]) :
                     name \in {x \in RetNames : stamp[x] # NoTime}}
    /\ everPresent = KeysOf(bucket)
    /\ calls = {}
    /\ rpc = [n \in Nodes |-> "idle"]
    /\ rFiles = [n \in Nodes |-> <<>>]
    /\ rIdx = [n \in Nodes |-> 0]
    /\ rErr = [n \in Nodes |-> "nil"]
    /\ rDeleted = [n \in Nodes |-> {}]
    /\ rFailedAt = [n \in Nodes |-> 0]
    /\ rStart = [n \in Nodes |-> {}]
    /\ afterRun = NoRun
    /\ upRec = NoUpload
    /\ lsRes = NoListing
    /\ uploads = 0
    /\ IdleDownload
    /\ IdleNewS3

\* a node uploads a new snapshot
RetUpload ==
    /\ uploads < MaxUploads
    /\ \E name \in RetNames, lastModified \in StampsAfter(bucket) :
         /\ PathJoin(config.EtcdS3Folder, name) \notin KeysOf(bucket)
         /\ Upload(LocalPath(name), 1, lastModified, lastModified, FALSE, <<>>)
    /\ afterRun' = NoRun
    /\ UNCHANGED <<rpc, rFiles, rIdx, rErr, rDeleted, rFailedAt, rStart, dlVars, nsVars>>

RetList(n) == RetentionList(n) /\ UNCHANGED <<upRec, lsRes, uploads, dlVars, nsVars>>
RetDelete(n) == RetentionDelete(n) /\ UNCHANGED <<upRec, lsRes, uploads, dlVars, nsVars>>
RetReturn(n) == RetentionReturn(n) /\ UNCHANGED <<upRec, lsRes, uploads, dlVars, nsVars>>

\* one node, and uploads only between its runs
SeqListSnapshots ==
    /\ rpc["n1"] = "idle"
    /\ lsRes = NoListing
    /\ ListSnapshots
    /\ UNCHANGED <<retVars, dlVars, nsVars>>

SeqNext ==
    \/ RetList("n1")
    \/ RetDelete("n1")
    \/ RetReturn("n1")
    \/ (rpc["n1"] = "idle" /\ RetUpload)

SpecSeq == RetInit /\ [][SeqNext]_vars

\* one node lists snapshots and prunes them, against a store that may fail
AbortNext ==
    \/ SeqListSnapshots
    \/ RetList("n1")
    \/ RetDelete("n1")
    \/ RetReturn("n1")

SpecAbort == RetInit /\ [][AbortNext]_vars

\* every node runs snapshotRetention once, and uploads come at any time
ConcNext ==
    \/ \E n \in Nodes : RetList(n)
    \/ \E n \in Nodes : RetDelete(n)
    \/ RetUpload

SpecConc == RetInit /\ [][ConcNext]_vars

----------------------------------------------------------------------------
(* Listings: buckets of every shape, listed. *)

Alphabet == {"s", "-", "1"}

\* the strings over the alphabet of at most n characters
RECURSIVE StringsUpTo(_)
StringsUpTo(n) ==
    IF n = 0 THEN {<<>>}
    ELSE LET shorter == StringsUpTo(n - 1)
         IN  shorter \cup {Append(x, c) : x \in shorter, c \in Alphabet}

\* file names: a stem, with or without the extension; a signed number and
\* the least number that does not fit 64 bits
FileNames ==
    ({stem \o ext : stem \in StringsUpTo(MaxStemLen),
                    ext \in {<<>>, compressedExtension}} \ {<<>>})
    \cup {<<"s", "-", "+", "1">>, <<"s", "-">> \o Int64Cutoff}

\* where a key may lie: at the top, in the folder "f", below it
KeyDirs == {<<>>, <<"f", "/">>, <<"f", "/", "d", "/">>}

Sizes == {0, 7}

ListStamps == {Time(1, 0), Time(1, HalfSecond)}

AnyObjects ==
    {ObjectInfo(dir \o name, size, stamp) :
        dir \in KeyDirs, name \in FileNames, size \in Sizes, stamp \in ListStamps}

\* a few objects that share a name, to stand beside any other
SameNameObjects ==
    {ObjectInfo(<<"s", "-", "1">>, 7, Time(1, 0)),
     ObjectInfo(<<"f", "/", "s", "-", "1">>, 7, Time(1, 0)),
     ObjectInfo(<<"f", "/", "d", "/", "s", "-", "1">>, 7, Time(1, 0))}

IdleRetention ==
    /\ rpc = [n \in Nodes |-> "idle"]
    /\ rFiles = [n \in Nodes |-> <<>>]
    /\ rIdx = [n \in Nodes |-> 0]
    /\ rErr = [n \in Nodes |-> "nil"]
    /\ rDeleted = [n \in Nodes |-> {}]
    /\ rFailedAt = [n \in Nodes |-> 0]
    /\ rStart = [n \in Nodes |-> {}]
    /\ afterRun = NoRun

ListInit ==
    /\ \E folder \in Folders : config = Control(folder, 0, <<>>)
    /\ \E one \in {{o} : o \in AnyObjects} \cup {{}}, others \in SUBSET SameNameObjects :
         /\ KeysOf(one) \cap KeysOf(others) = {}
         /\ bucket = one \cup others
    /\ everPresent = KeysOf(bucket)
    /\ calls = {}
    /\ IdleRetention
    /\ upRec = NoUpload
    /\ lsRes = NoListing
    /\ uploads = 0
    /\ IdleDownload
    /\ IdleNewS3

ListList ==
    /\ ListSnapshots
    /\ UNCHANGED <<retVars, dlVars, nsVars>>

ListNext == ListList

SpecList == ListInit /\ [][ListNext]_vars

----------------------------------------------------------------------------
(* Round trips: a file uploaded, then the bucket listed. *)

\* what a failed transfer may say: texts of 0 to 4 bytes
ErrTexts == {<<>>, <<"t">>, <<"i", "d">>, <<"d", "i", "f">>, <<"z", "i", "p", "s">>}

\* where a local snapshot file may lie
LocalDirs == {<<>>, <<"/", "v", "/">>}

RoundInit ==
    /\ \E folder \in Folders : config = Control(folder, 0, <<>>)
    /\ bucket \in SUBSET SameNameObjects
    /\ everPresent = KeysOf(bucket)
    /\ calls = {}
    /\ IdleRetention
    /\ upRec = NoUpload
    /\ lsRes = NoListing
    /\ uploads = 0
    /\ IdleDownload
    /\ IdleNewS3

\* the file of the round trip is uploaded
RoundUpload ==
    /\ upRec = NoUpload
    /\ \E dir \in LocalDirs, name \in FileNames, size \in Sizes :
         \/ Upload(dir \o name, size, Time(2, HalfSecond), Time(2, 0), FALSE, <<>>)
         \/ \E errText \in ErrTexts :
              Upload(dir \o name, size, Time(2, HalfSecond), Time(2, 0), TRUE, errText)
    /\ UNCHANGED <<retVars, dlVars, nsVars>>

RoundList ==
    /\ upRec # NoUpload
    /\ ListSnapshots
    /\ UNCHANGED <<retVars, dlVars, nsVars>>

RoundNext == RoundUpload \/ RoundList

SpecRound == RoundInit /\ [][RoundNext]_vars

----------------------------------------------------------------------------
(* Retention: what a run may delete. *)

Min(a, b) == IF a <= b THEN a ELSE b

Retention == config.EtcdSnapshotRetention

\* the objects whose key starts with the snapshot prefix
UnderSnapshotPrefix(objs) == {o \in objs : HasPrefix(o.Key, snapshotPrefix)}

\* d is no newer than k
NoNewer(d, k) == ~Before(k.LastModified, d.LastModified)

RunEndedClean(n) == rpc[n] = "done" /\ rErr[n] = "nil"

\* C1: a run of snapshotRetention that returns nil, with retention R >= 1
\* and N objects under the snapshot prefix when it started, removed nothing
\* when N <= R, and when N > R removed exactly N - R objects, all of them
\* under the prefix and none newer than any object it kept, leaving R; a run
\* that starts from the bucket a clean run left removes nothing; with R < 1
\* a run lists nothing and removes nothing.
C1_RetentionPrunesOldestExcess ==
    LET n == "n1"
        before == UnderSnapshotPrefix(rStart[n])
        gone == rStart[n] \ bucket
    IN  /\ (RunEndedClean(n) /\ Retention >= 1 /\ Cardinality(before) <= Retention)
              => bucket = rStart[n]
        /\ (RunEndedClean(n) /\ Retention >= 1 /\ Cardinality(before) > Retention)
              => /\ gone \subseteq before
                 /\ Cardinality(gone) = Cardinality(before) - Retention
                 /\ Cardinality(UnderSnapshotPrefix(bucket)) = Retention
                 /\ \A d \in gone, k \in before \ gone : NoNewer(d, k)
                 /\ bucket \subseteq rStart[n]
        /\ (RunEndedClean(n) /\ afterRun.clean /\ afterRun.bucket = rStart[n]
               /\ Retention >= 1)
              => bucket = rStart[n]
        /\ Retention < 1
              => /\ \A c \in calls : c.method # "snapshotRetention"
                 /\ rpc[n] # "idle" => bucket = rStart[n]
                 /\ rDeleted[n] = {}

\* a second run has ended, right after a clean run that pruned
C1_Witness ==
    /\ RunEndedClean("n1")
    /\ Retention >= 1
    /\ afterRun.clean
    /\ afterRun.deleted # {}
    /\ afterRun.bucket = rStart["n1"]

FilesBetween(n, a, b) == {rFiles[n][i] : i \in {j \in a..b : j >= 1 /\ j <= Len(rFiles[n])}}

\* C3: during and after a run the keys removed are those of the files from
\* place R + 1 up to the place of the loop, in that order; a failed delete
\* ends the run with its error, the files from the failed one on stay in the
\* bucket, the ones removed before stay removed; and every file removed has
\* at least R files of the listing, none of them removed, that are no older.
C3_FirstFailedDeleteEndsRun ==
    LET n == "n1"
        listing == FilesBetween(n, 1, Len(rFiles[n]))
        removed == {o \in listing : o.Key \in rDeleted[n]}
    IN  /\ rpc[n] \in {"deleting", "done"} /\ Retention >= 1 =>
              /\ rDeleted[n] = KeysOf(FilesBetween(n, Retention + 1, rIdx[n] - 1))
              /\ KeysOf(bucket) \cap rDeleted[n] = {}
              /\ \A d \in removed :
                   Cardinality({k \in listing \ removed : NoNewer(d, k)}) >= Retention
        /\ rpc[n] = "deleting" => rFailedAt[n] = 0 /\ rErr[n] = "nil"
        /\ rpc[n] = "done" /\ rFailedAt[n] # 0 =>
              /\ rErr[n] = "RemoveErr"
              /\ rIdx[n] = rFailedAt[n]
              /\ FilesBetween(n, rFailedAt[n], Len(rFiles[n])) \subseteq bucket
        /\ rpc[n] = "done" /\ rErr[n] = "RemoveErr" => rFailedAt[n] # 0

\* a delete failed after an earlier delete of the run succeeded
C3_Witness ==
    /\ rpc["n1"] = "done"
    /\ rFailedAt["n1"] # 0
    /\ rDeleted["n1"] # {}

\* C4: every network call is made under a context derived for it with the
\* configured timeout as its deadline.
C4_EveryCallHasOwnTimeout ==
    \A c \in calls :
        /\ c.ctx.derived = "WithTimeout"
        /\ c.ctx.deadline = "EtcdS3Timeout"

----------------------------------------------------------------------------
(* Listings: what listSnapshots returns. *)

Listed == lsRes.ran /\ lsRes.err = "nil"

Snapshots == lsRes.snapshots[1]

\* C9: when the listing yields an error, listSnapshots returns the error and
\* no map, and snapshotRetention returns the error with the bucket as it was.
C9_ListingErrorAborts ==
    /\ lsRes.ran /\ lsRes.err # "nil" => lsRes.snapshots = <<>>
    /\ lsRes.ran /\ lsRes.err = "nil" => lsRes.snapshots # <<>>
    /\ rpc["n1"] = "done" /\ rErr["n1"] = "ListErr" =>
          /\ bucket = rStart["n1"]
          /\ rDeleted["n1"] = {}
          /\ rIdx["n1"] = Retention + 1

\* listSnapshots met an error after it had built a record, and the retention
\* run met one with more objects than it retains
C9_Witness ==
    /\ lsRes.ran
    /\ lsRes.err = "ListErr"
    /\ lsRes.built # {}
    /\ rpc["n1"] = "done"
    /\ rErr["n1"] = "ListErr"
    /\ Retention >= 1
    /\ Cardinality(UnderSnapshotPrefix(bucket)) > Retention

\* the record of the last upload is in the map, under its key
RoundTrips ==
    \E k \in DOMAIN Snapshots :
        /\ k = generateSnapshotConfigMapKey(upRec.sf)
        /\ Snapshots[k].Name = upRec.sf.Name
        /\ Snapshots[k].NodeName = "s3"
        /\ upRec.sf.NodeName = "s3"
        /\ Snapshots[k].Compressed = upRec.sf.Compressed
        /\ Snapshots[k].S3 = upRec.sf.S3

\* C5, as stated: after a successful upload of any file, a listing of the
\* unchanged bucket holds a record with the key, name, origin, compressed
\* flag and configuration of the upload's record.
C5_AnyUploadIsListed ==
    (Listed /\ upRec.ran /\ upRec.err = "nil") => RoundTrips

\* C5, amended: the same for every file that is not empty.
C5_NonEmptyUploadIsListed ==
    (Listed /\ upRec.ran /\ upRec.err = "nil" /\ upRec.size > 0) => RoundTrips

\* a compressed file, not empty, was uploaded into a folder and listed
C5_Witness ==
    /\ Listed
    /\ upRec.ran
    /\ upRec.err = "nil"
    /\ upRec.size > 0
    /\ upRec.sf.Compressed
    /\ config.EtcdS3Folder # <<>>

\* C7: a listing without error holds exactly the objects of size other than
\* 0 whose key starts with the folder, at any depth, each with its base name
\* and size.
C7_ListsEveryObjectUnderFolder ==
    Listed =>
        {[Name |-> Snapshots[k].Name, Size |-> Snapshots[k].Size] : k \in DOMAIN Snapshots}
          = {[Name |-> Base(o.Key), Size |-> o.Size] :
               o \in {x \in bucket : HasPrefix(x.Key, config.EtcdS3Folder) /\ x.Size # 0}}

\* C8: a listing without error has as many entries as objects of size other
\* than 0 were listed: no two objects share a key of the map.
C8_KeysDoNotCollide ==
    Listed =>
        Cardinality(DOMAIN Snapshots) = Cardinality({o \in lsRes.listed : o.Size # 0})

\* the characters of a name after its last hyphen, the extension cut off
AfterLastHyphen(name) ==
    LET stem == IF HasSuffix(name, compressedExtension)
                THEN SubSeq(name, 1, Len(name) - Len(compressedExtension))
                ELSE name
        from == CHOOSE i \in 1..(Len(stem) + 1) :
                    /\ \A j \in i..Len(stem) : stem[j] # "-"
                    /\ i = 1 \/ stem[i - 1] = "-"
    IN  SubSeq(stem, from, Len(stem))

\* the text is a decimal integer of 64 bits (it has no hyphen in it)
IsInt64(text) ==
    LET body == IF text # <<>> /\ text[1] = "+" THEN Tail(text) ELSE text
    IN  /\ body # <<>>
        /\ \A i \in 1..Len(body) : body[i] \in Digits
        /\ DigitsLess(StripZeros(body), Int64Cutoff)

Int64Of(text) ==
    DigitsValue(IF text[1] = "+" THEN Tail(text) ELSE text)

\* every object received with a size other than 0 has its record
EveryObjectHasRecord ==
    Listed => \A o \in lsRes.listed : o.Size # 0 => \E b \in lsRes.built : b.obj = o

\* C10, as stated: the creation time of a record is the integer after the
\* last hyphen of the name, and the last-modified time of the object when
\* there is no such integer.
C10_CreatedAtIsLastModified ==
    /\ EveryObjectHasRecord
    /\ lsRes.ran =>
         \A b \in lsRes.built :
            LET text == AfterLastHyphen(Base(b.obj.Key))
            IN  b.sf.CreatedAt = IF IsInt64(text) THEN TimeUnix(Int64Of(text))
                                 ELSE b.obj.LastModified

\* C10, amended: ... and the last-modified time of the object cut to whole
\* seconds when there is no such integer.
C10_CreatedAtIsLastModifiedSecond ==
    /\ EveryObjectHasRecord
    /\ lsRes.ran =>
         \A b \in lsRes.built :
            LET text == AfterLastHyphen(Base(b.obj.Key))
            IN  b.sf.CreatedAt = IF IsInt64(text) THEN TimeUnix(Int64Of(text))
                                 ELSE Time(b.obj.LastModified.sec, 0)

\* a listing built one record from the number in the name, and one, of an
\* object whose number does not fit 64 bits and whose stamp is not a whole
\* second, from the stamp
C10_Witness ==
    /\ Listed
    /\ \E b \in lsRes.built :
         /\ IsInt64(AfterLastHyphen(Base(b.obj.Key)))
         /\ b.sf.CreatedAt = TimeUnix(1)
    /\ \E b \in lsRes.built :
         /\ HasSuffix(b.obj.Key, Int64Cutoff)
         /\ b.obj.LastModified.nsec # 0
         /\ b.sf.CreatedAt = Time(b.obj.LastModified.sec, 0)

----------------------------------------------------------------------------
(* Download. *)

\* the directory snapshotDir(config, true) resolves to
SnapshotDir == <<"/", "v">>

FileOf(files, path) == CHOOSE f \in files : f.path = path

\* os.Create: a new file of size 0, or the file there cut to size 0
CreateFile(files, path) ==
    IF \E f \in files : f.path = path
    THEN {f \in files : f.path # path}
         \cup {[path |-> path, size |-> 0, mode |-> FileOf(files, path).mode]}
    ELSE files \cup {[path |-> path, size |-> 0, mode |-> "0644"]}

\* the file after n more bytes were written to it
WriteFile(files, path, n) ==
    {f \in files : f.path # path}
    \cup {[path |-> path, size |-> FileOf(files, path).size + n,
           mode |-> FileOf(files, path).mode]}

\* os.Chmod
ChmodFile(files, path, mode) ==
    {f \in files : f.path # path}
    \cup {[path |-> path, size |-> FileOf(files, path).size, mode |-> mode]}

\* lines 144-153.  GetObject opens the object without asking the store for
\* it (the request goes out with the first Stat or Read), so a key that is
\* not in the bucket passes here; what it can report is a call it refused.
DownloadGet ==
    /\ dl.pc = "idle"
    /\ dl.runs < MaxDownloads
    /\ LET snapshotKey == PathJoin(config.EtcdS3Folder, config.ClusterResetRestorePath)
           started == [dl EXCEPT !.key = snapshotKey,
                                 !.path = <<>>,
                                 !.size = 0,
                                 !.missing = snapshotKey \notin KeysOf(bucket),
                                 !.startFiles = localFiles,
                                 !.startPath = config.ClusterResetRestorePath,
                                 !.runs = dl.runs + 1]
       IN  /\ calls' = calls \cup {Call("GetObject", "Download", WithTimeout(CallerCtx))}
           /\ \E getErr \in BOOLEAN :
                dl' = IF getErr
                      THEN [started EXCEPT !.pc = "done", !.err = "nil",
                                           !.fetchFailed = TRUE]
                      ELSE [started EXCEPT !.pc = "got", !.err = "nil",
                                           !.fetchFailed = FALSE]
    /\ UNCHANGED <<config, bucket, everPresent, localFiles>>

\* lines 156-166: the snapshot directory, the path, the file created
DownloadCreate ==
    /\ dl.pc = "got"
    /\ \E dirErr \in BOOLEAN, createErr \in BOOLEAN :
         LET fullSnapshotPath == PathJoin(SnapshotDir, config.ClusterResetRestorePath)
         IN  IF dirErr
             THEN /\ dl' = [dl EXCEPT !.pc = "done", !.err = "SnapshotDirErr"]
                  /\ UNCHANGED localFiles
             ELSE IF createErr
             THEN /\ dl' = [dl EXCEPT !.pc = "done", !.err = "CreateErr",
                                      !.path = fullSnapshotPath]
                  /\ UNCHANGED localFiles
             ELSE /\ dl' = [dl EXCEPT !.pc = "created", !.path = fullSnapshotPath]
                  /\ localFiles' = CreateFile(localFiles, fullSnapshotPath)
    /\ UNCHANGED <<config, bucket, everPresent, calls>>

\* lines 168-171: the first request for the object
DownloadStat ==
    /\ dl.pc = "created"
    /\ \E statErr \in BOOLEAN :
         IF statErr \/ dl.key \notin KeysOf(bucket)
         THEN dl' = [dl EXCEPT !.pc = "done", !.err = "StatErr", !.fetchFailed = TRUE]
         ELSE dl' = [dl EXCEPT !.pc = "statted",
                               !.size = (CHOOSE o \in bucket : o.Key = dl.key).Size]
    /\ UNCHANGED <<config, bucket, everPresent, calls, localFiles>>

\* lines 173-177: the copy of stat.Size bytes, and the restore path set
DownloadCopy ==
    /\ dl.pc = "statted"
    /\ \E written \in 0..dl.size :
         /\ localFiles' = WriteFile(localFiles, dl.path, written)
         /\ IF written < dl.size
            THEN /\ dl' = [dl EXCEPT !.pc = "done", !.err = "CopyErr",
                                     !.fetchFailed = TRUE]
                 /\ UNCHANGED config
            ELSE /\ dl' = [dl EXCEPT !.pc = "copied"]
                 /\ config' = [config EXCEPT !.ClusterResetRestorePath = dl.path]
    /\ UNCHANGED <<bucket, everPresent, calls>>

\* line 179
DownloadChmod ==
    /\ dl.pc = "copied"
    /\ \E chmodErr \in BOOLEAN :
         IF chmodErr
         THEN /\ dl' = [dl EXCEPT !.pc = "done", !.err = "ChmodErr"]
              /\ UNCHANGED localFiles
         ELSE /\ dl' = [dl EXCEPT !.pc = "done", !.err = "nil"]
              /\ localFiles' = ChmodFile(localFiles, dl.path, "0600")
    /\ UNCHANGED <<config, bucket, everPresent, calls>>

\* the caller has the result and may call Download again
DownloadReturn ==
    /\ dl.pc = "done"
    /\ dl' = [dl EXCEPT !.pc = "idle"]
    /\ UNCHANGED <<config, bucket, everPresent, calls, localFiles>>

\* the snapshots a restore may ask for, and where they may lie
RestoreNames == {<<"s", "-", "1">>, <<"s", "-", "2">>}

RestoreObjects ==
    {ObjectInfo(<<"s", "-", "1">>, 2, Time(1, 0)),
     ObjectInfo(<<"f", "/", "s", "-", "1">>, 2, Time(1, 0))}

DownloadInit ==
    /\ \E folder \in Folders, restorePath \in RestoreNames :
         config = Control(folder, 0, restorePath)
    /\ bucket \in SUBSET RestoreObjects
    /\ everPresent = KeysOf(bucket)
    /\ calls = {}
    /\ IdleRetention
    /\ upRec = NoUpload
    /\ lsRes = NoListing
    /\ uploads = 0
    /\ localFiles \in {{}, {[path |-> PathJoin(SnapshotDir, <<"s", "-", "1">>),
                             size |-> 1, mode |-> "0644"]}}
    /\ dl = NoDownload
    /\ IdleNewS3

restVars == <<retVars, upRec, lsRes, uploads, nsVars>>

DlGet == DownloadGet /\ UNCHANGED restVars
DlCreate == DownloadCreate /\ UNCHANGED restVars
DlStat == DownloadStat /\ UNCHANGED restVars
DlCopy == DownloadCopy /\ UNCHANGED restVars
DlChmod == DownloadChmod /\ UNCHANGED restVars
DlReturn == DownloadReturn /\ UNCHANGED restVars

DownloadNext ==
    \/ DlGet
    \/ DlCreate
    \/ DlStat
    \/ DlCopy
    \/ DlChmod
    \/ DlReturn

SpecDownload == DownloadInit /\ [][DownloadNext]_vars

\* C6: a Download whose key is not in the bucket, or whose fetch failed, has
\* returned nil, left the local files as they were and left the restore path
\* as it was (a Download that the local disk failed is left aside).
C6_MissingObjectIsNoOp ==
    (/\ dl.pc = "done"
     /\ dl.missing \/ dl.fetchFailed
     /\ dl.err \notin {"SnapshotDirErr", "CreateErr"}) =>
        /\ dl.err = "nil"
        /\ localFiles = dl.startFiles
        /\ config.ClusterResetRestorePath = dl.startPath

----------------------------------------------------------------------------
(* upload: what it returns. *)

\* the part of a path after its last slash
AfterLastSlash(p) ==
    LET from == CHOOSE i \in 1..(Len(p) + 1) :
                    /\ \A j \in i..Len(p) : p[j] # "/"
                    /\ i = 1 \/ p[i - 1] = "/"
    IN  SubSeq(p, from, Len(p))

\* the folder, a slash, the name; the name alone when there is no folder
UnderFolder(folder, name) ==
    IF folder = <<>> THEN name ELSE folder \o <<"/">> \o name

\* C11: every upload returns a record that carries the configuration and
\* was stored under the folder joined with the base name of the file; when
\* the transfer failed the error is returned with it, the status is failed
\* and the message decodes from base64 to the text of the error; when it
\* succeeded the status is successful, the message is empty, the size is the
\* number of bytes transferred and the object is in the bucket.
C11_UploadAlwaysReturnsRecord ==
    upRec.ran =>
        /\ upRec.sf.S3.Endpoint = config.EtcdS3Endpoint
        /\ upRec.sf.S3.EndpointCA = config.EtcdS3EndpointCA
        /\ upRec.sf.S3.SkipSSLVerify = config.EtcdS3SkipSSLVerify
        /\ upRec.sf.S3.Bucket = config.EtcdS3BucketName
        /\ upRec.sf.S3.Region = config.EtcdS3Region
        /\ upRec.sf.S3.Folder = config.EtcdS3Folder
        /\ upRec.sf.S3.Insecure = config.EtcdS3Insecure
        /\ upRec.sf.Name = AfterLastSlash(upRec.snapshot)
        /\ upRec.key = UnderFolder(config.EtcdS3Folder, AfterLastSlash(upRec.snapshot))
        /\ upRec.err # "nil" =>
              /\ upRec.sf.Status = "failed"
              /\ DecodeString(upRec.sf.Message) =
                    [err |-> "nil", val |-> BytesOf(upRec.errText)]
        /\ upRec.err = "nil" =>
              /\ upRec.sf.Status = "successful"
              /\ upRec.sf.Message = <<>>
              /\ upRec.sf.Size = upRec.size
              /\ \E o \in bucket : o.Key = upRec.key /\ o.Size = upRec.size

\* a transfer into a folder failed with a text whose encoding is padded
C11_Witness ==
    /\ upRec.ran
    /\ upRec.err # "nil"
    /\ Len(upRec.errText) = 2
    /\ upRec.sf.Message # <<>>
    /\ config.EtcdS3Folder # <<>>

----------------------------------------------------------------------------
(* NewS3. *)

\* strings.Contains
Contains(s, substr) ==
    \E i \in 1..(Len(s) - Len(substr) + 1) : SubSeq(s, i, i + Len(substr) - 1) = substr

Aliyun == <<"a", "l", "i", "y", "u", "n">>

\* a lookup that takes the name only at the start of the endpoint
bucketLookupTypePrefix(endpoint) ==
    IF HasPrefix(endpoint, Aliyun) THEN "BucketLookupDNS" ELSE "BucketLookupAuto"

\* lines 329-334
bucketLookupType(endpoint) ==
    IF Contains(endpoint, Aliyun) THEN "BucketLookupDNS" ELSE "BucketLookupAuto"

\* the files a CA may be read from: one holds the bytes "d"
CaFile == <<"/", "f">>

\* os.ReadFile
ReadFile(name) ==
    IF name = CaFile THEN [err |-> "nil", val |-> BytesOf(<<"d">>)]
    ELSE [err |-> "ENOENT", val |-> <<>>]

\* pem.Decode: the first PEM block of the data, if it has one.  Of the data
\* drawn here "d" is the PEM form of the certificate ca1 and "i" is a PEM
\* block around bytes that are no certificate; anything else has no block.
PemDecode(data) ==
    IF data = BytesOf(<<"d">>) THEN <<[Type |-> "CERTIFICATE", Bytes |-> "ca1"]>>
    ELSE IF data = BytesOf(<<"i">>) THEN <<[Type |-> "CERTIFICATE", Bytes |-> "junk"]>>
    ELSE <<>>

\* x509.ParseCertificates
ParseCertificates(der) ==
    IF der = "ca1" THEN [err |-> "nil", certs |-> {"ca1"}]
    ELSE [err |-> "ParseErr", certs |-> {}]

\* certPool.AppendCertsFromPEM on a new pool: the certificates of the
\* blocks that parse
AppendCertsFromPEM(data) ==
    LET p == PemDecode(data)
    IN  IF p # <<>> /\ p[1].Type = "CERTIFICATE"
        THEN ParseCertificates(p[1].Bytes).certs
        ELSE {}

\* lines 288-294
readS3EndpointCA(endpointCA) ==
    LET ca == DecodeString(endpointCA)
    IN  IF ca.err # "nil" THEN ReadFile(endpointCA) ELSE ca

\* lines 318-327
isValidCertificate(c) ==
    LET p == PemDecode(c)
    IN  /\ p # <<>>
        /\ ParseCertificates(p[1].Bytes).err = "nil"

\* a *tls.Config: RootCAs is <<>> for a nil pool (the roots of the system)
\* or <<pool>>
TLSConfig(rootCAs, insecureSkipVerify) ==
    <<[RootCAs |-> rootCAs, InsecureSkipVerify |-> insecureSkipVerify]>>

\* lines 296-314: the error, and the TLSClientConfig of tr afterwards
setTransportCA(tr, endpointCA, insecureSkipVerify) ==
    LET ca == readS3EndpointCA(endpointCA)
    IN  IF ca.err # "nil" THEN [err |-> ca.err, tls |-> tr]
        ELSE IF ~isValidCertificate(ca.val)
        THEN [err |-> "NotValidCertificate", tls |-> tr]
        ELSE [err |-> "nil",
              tls |-> TLSConfig(<<AppendCertsFromPEM(ca.val)>>, insecureSkipVerify)]

\* a second case that looks at the insecure flag
SkipVerifyCaseInsecure(c) == c.EtcdS3 /\ c.EtcdS3Insecure

\* line 51: the second case of the switch
SkipVerifyCase(c) == c.EtcdS3 /\ c.EtcdS3SkipSSLVerify

\* a check that takes any answer without error
BucketFoundAnyway(outcome) == outcome # "err"

\* lines 82-87: the check went through and the bucket is there
BucketFound(outcome) == outcome = "exists"

\* the fields of config.Control NewS3 reads
S3Control(bucketName, endpoint, endpointCA, skipSSLVerify, etcdS3, insecure, keys) ==
    [EtcdS3BucketName |-> bucketName,
     EtcdS3Endpoint |-> endpoint,
     EtcdS3EndpointCA |-> endpointCA,
     EtcdS3SkipSSLVerify |-> skipSSLVerify,
     EtcdS3 |-> etcdS3,
     EtcdS3Insecure |-> insecure,
     EtcdS3Region |-> "us-east-1",
     EtcdS3AccessKey |-> keys,
     EtcdS3SecretKey |-> keys]

\* lines 57-70: the options of the client
ClientOf(c) ==
    [Creds |-> IF Len(c.EtcdS3AccessKey) = 0 /\ Len(c.EtcdS3SecretKey) = 0
               THEN "IAM" ELSE "StaticV4",
     Secure |-> ~c.EtcdS3Insecure,
     Region |-> c.EtcdS3Region,
     Transport |-> "http.DefaultTransport",
     BucketLookup |-> bucketLookupType(c.EtcdS3Endpoint)]

\* lines 39-79: the bucket name, the transport, the credentials, the client
NewS3Open(c) ==
    /\ ns.pc = "idle"
    /\ LET started == [ns EXCEPT !.config = <<c>>, !.client = <<>>, !.err = "nil",
                                 !.handle = <<>>, !.checked = "no",
                                 !.startTransport = defaultTransport,
                                 !.startCalls = calls,
                                 !.opens = ns.opens + 1]
           failed(e) == [started EXCEPT !.pc = "done", !.err = e]
           trCA == setTransportCA(defaultTransport, c.EtcdS3EndpointCA,
                                  c.EtcdS3SkipSSLVerify)
       IN  IF c.EtcdS3BucketName = <<>>
           THEN /\ ns' = failed("BucketNameNotSet")
                /\ UNCHANGED defaultTransport
           ELSE IF c.EtcdS3EndpointCA # <<>> /\ trCA.err # "nil"
           THEN /\ ns' = failed(trCA.err)
                /\ UNCHANGED defaultTransport
           ELSE /\ defaultTransport' =
                     IF c.EtcdS3EndpointCA # <<>> THEN trCA.tls
                     ELSE IF SkipVerifyCase(c)
                     THEN TLSConfig(<<>>, c.EtcdS3SkipSSLVerify)
                     ELSE defaultTransport
                /\ \E newErr \in BOOLEAN :
                     ns' = IF newErr THEN failed("NewErr")
                           ELSE [started EXCEPT !.pc = "checking",
                                                !.client = <<ClientOf(c)>>]
    /\ UNCHANGED <<config, bucket, everPresent, calls, handles>>

\* lines 78-94: the bucket-existence check and the value returned
NewS3Check ==
    /\ ns.pc = "checking"
    /\ calls' = calls \cup {Call("BucketExists", "NewS3", WithTimeout(CallerCtx))}
    /\ \E outcome \in {"err", "absent", "exists"} :
         ns' = [ns EXCEPT !.pc = "done",
                          !.checked = outcome,
                          !.err = IF outcome = "err" THEN "BucketExistsErr"
                                  ELSE IF BucketFound(outcome) THEN "nil"
                                  ELSE "BucketDoesNotExist",
                          !.handle = IF outcome # "err" /\ BucketFound(outcome)
                                     THEN <<[config |-> ns.config[1],
                                             client |-> ns.client[1]]>>
                                     ELSE <<>>]
    /\ UNCHANGED <<config, bucket, everPresent, defaultTransport, handles>>

\* the caller has the result, and keeps the handle if there is one; with it
\* the history keeps the TLS settings in effect when it was returned
NewS3Return ==
    /\ ns.pc = "done"
    /\ ns' = [ns EXCEPT !.pc = "idle"]
    /\ handles' = handles \o
          (IF ns.handle = <<>> THEN <<>>
           ELSE <<[config |-> ns.handle[1].config,
                   client |-> ns.handle[1].client,
                   tlsAtOpen |-> defaultTransport]>>)
    /\ UNCHANGED <<config, bucket, everPresent, calls, defaultTransport>>

\* what the other methods act on, which NewS3 leaves alone
otherVars == <<retVars, upRec, lsRes, uploads, dlVars>>

IdleOthers ==
    /\ config = Control(<<>>, 0, <<>>)
    /\ bucket = {}
    /\ everPresent = {}
    /\ calls = {}
    /\ IdleRetention
    /\ upRec = NoUpload
    /\ lsRes = NoListing
    /\ uploads = 0
    /\ IdleDownload

\* the endpoints a configuration may name
Endpoints ==
    {<<"s", "3">>, Aliyun, <<"s", ".">> \o Aliyun \o <<".", "s">>,
     <<"A", "l", "i", "y", "u", "n">>, <<"a", "l", "i", "y", "u">>,
     <<"a", "l", "i", "-", "y", "u", "n">>}

\* the CA a configuration may name: none, base64 of a certificate, of a PEM
\* block that holds none, of bytes without a block; a file and no file
EndpointCAs ==
    {<<>>, EncodeToString(<<"d">>), EncodeToString(<<"i">>), EncodeToString(<<"z">>),
     CaFile, <<"/", "d">>}

NewConfigs ==
    {S3Control(bucketName, endpoint, endpointCA, skipSSLVerify, etcdS3, insecure, keys) :
        bucketName \in {<<>>, <<"b">>}, endpoint \in Endpoints,
        endpointCA \in EndpointCAs, skipSSLVerify \in BOOLEAN, etcdS3 \in BOOLEAN,
        insecure \in BOOLEAN, keys \in {<<>>, <<"k">>}}

\* one call of NewS3, in a process whose transport may have been set before
NewInit ==
    /\ IdleOthers
    /\ defaultTransport \in {NoTLS, TLSConfig(<<>>, TRUE), TLSConfig(<<{"ca1"}>>, FALSE)}
    /\ handles = <<>>
    /\ ns = NoNewS3

NewOpen ==
    /\ ns.opens = 0
    /\ \E c \in NewConfigs : NewS3Open(c)
    /\ UNCHANGED otherVars

NewCheck == NewS3Check /\ UNCHANGED otherVars

NewReturn == NewS3Return /\ UNCHANGED otherVars

NewNext == NewOpen \/ NewCheck \/ NewReturn

SpecNew == NewInit /\ [][NewNext]_vars

----------------------------------------------------------------------------
(* NewS3: the transport it leaves. *)

\* the configuration of the call of NewS3 under way or just ended
NewConfig == ns.config[1]

\* the call has gone past the choice of the transport
PastTransport ==
    /\ ns.pc \in {"checking", "done"}
    /\ ns.err \notin {"BucketNameNotSet", "ENOENT", "CorruptInputError",
                      "NotValidCertificate"}

\* the call ended at or before the choice of the transport
EndedBeforeTransport ==
    /\ ns.pc = "done"
    /\ ns.err \in {"BucketNameNotSet", "ENOENT", "CorruptInputError",
                   "NotValidCertificate"}

\* the certificates a CA setting names, as base64 or as a file
CertificatesOf(endpointCA) ==
    IF endpointCA \in {<<"Z", "A", "=", "=">>, CaFile} THEN {"ca1"} ELSE {}

SkipsVerification(tls) == tls # NoTLS /\ tls[1].InsecureSkipVerify

\* the transport of a call that was given a CA: its pool, and the flag
TrustsGivenCA ==
    (PastTransport /\ NewConfig.EtcdS3EndpointCA # <<>>) =>
        defaultTransport =
            <<[RootCAs |-> <<CertificatesOf(NewConfig.EtcdS3EndpointCA)>>,
               InsecureSkipVerify |-> NewConfig.EtcdS3SkipSSLVerify]>>

\* C12, as stated: with a CA the transport trusts its pool and carries the
\* skip-verify flag; without one, when skipping verification is asked for,
\* the transport skips verification; when neither is asked for the TLS
\* settings are as they were.
C12_SkipVerifyWhenRequested ==
    /\ TrustsGivenCA
    /\ (PastTransport /\ NewConfig.EtcdS3EndpointCA = <<>>
          /\ NewConfig.EtcdS3SkipSSLVerify)
         => SkipsVerification(defaultTransport)
    /\ (PastTransport /\ NewConfig.EtcdS3EndpointCA = <<>>
          /\ ~NewConfig.EtcdS3SkipSSLVerify)
         => defaultTransport = ns.startTransport

\* C12, amended: ... without a CA the transport skips verification when
\* skipping is asked for and the S3 flag of the configuration is set; in
\* every other case without a CA, and when the call ends before the
\* transport is chosen, the TLS settings are as they were.
C12_SkipVerifyWhenS3AndRequested ==
    /\ TrustsGivenCA
    /\ (PastTransport /\ NewConfig.EtcdS3EndpointCA = <<>>
          /\ NewConfig.EtcdS3 /\ NewConfig.EtcdS3SkipSSLVerify)
         => defaultTransport = <<[RootCAs |-> <<>>, InsecureSkipVerify |-> TRUE]>>
    /\ (PastTransport /\ NewConfig.EtcdS3EndpointCA = <<>>
          /\ ~(NewConfig.EtcdS3 /\ NewConfig.EtcdS3SkipSSLVerify))
         => defaultTransport = ns.startTransport
    /\ EndedBeforeTransport => defaultTransport = ns.startTransport

\* a call without a CA and without the S3 flag asked to skip verification,
\* went past the transport and left a transport that verifies
C12_Witness ==
    /\ PastTransport
    /\ NewConfig.EtcdS3EndpointCA = <<>>
    /\ NewConfig.EtcdS3SkipSSLVerify
    /\ ~NewConfig.EtcdS3
    /\ NewConfig.EtcdS3Insecure
    /\ ns.startTransport = NoTLS
    /\ defaultTransport = NoTLS

----------------------------------------------------------------------------
(* NewS3: what it returns. *)

BucketExistsCalls(cs) == {c \in cs : c.op = "BucketExists"}

\* C13: a call of NewS3 with an empty bucket name ends with an error and no
\* handle, without a network call and with the transport as it was, and
\* never reaches the bucket check; a call that ends returns a handle or an
\* error, never both and never neither, and a handle only after a bucket
\* check that went through without error and found the bucket.
C13_NewS3FailsFast ==
    /\ (ns.pc # "idle" /\ NewConfig.EtcdS3BucketName = <<>>) =>
          /\ ns.pc = "done"
          /\ ns.err = "BucketNameNotSet"
          /\ ns.handle = <<>>
          /\ calls = ns.startCalls
          /\ defaultTransport = ns.startTransport
    /\ ns.pc = "done" =>
          /\ (ns.handle # <<>>) <=> (ns.err = "nil")
          /\ ns.handle # <<>> =>
                /\ ns.checked = "exists"
                /\ BucketExistsCalls(calls) # {}
                /\ ns.handle[1].config = NewConfig
          /\ ns.checked \in {"err", "absent"} => ns.handle = <<>> /\ ns.err # "nil"
    /\ \A i \in 1..Len(handles) : handles[i].config.EtcdS3BucketName # <<>>

\* a call with an empty bucket name, a CA and the skip-verify flag has ended
C13_Witness ==
    /\ ns.pc = "done"
    /\ NewConfig.EtcdS3BucketName = <<>>
    /\ NewConfig.EtcdS3EndpointCA = CaFile
    /\ NewConfig.EtcdS3SkipSSLVerify
    /\ ns.err = "BucketNameNotSet"

\* the endpoint has the name somewhere in it
HasVendorName(endpoint) ==
    \E i \in 1..Len(endpoint), j \in 1..Len(endpoint) : SubSeq(endpoint, i, j) = Aliyun

\* C14, as stated: the client of an endpoint with the vendor's name in it
\* looks buckets up by path, every other client automatically.
C14_VendorGetsPathStyle ==
    ns.client # <<>> =>
        ns.client[1].BucketLookup =
            IF HasVendorName(NewConfig.EtcdS3Endpoint) THEN "BucketLookupPath"
            ELSE "BucketLookupAuto"

\* C14, amended: the client of an endpoint with the vendor's name in it, in
\* lower case, looks buckets up by DNS (virtual-host style), every other
\* client automatically, whatever the rest of the configuration.
C14_VendorGetsDNSStyle ==
    ns.client # <<>> =>
        ns.client[1].BucketLookup =
            IF HasVendorName(NewConfig.EtcdS3Endpoint) THEN "BucketLookupDNS"
            ELSE "BucketLookupAuto"

\* a client was made for an endpoint with the name in its middle
C14_Witness ==
    /\ ns.client # <<>>
    /\ HasVendorName(NewConfig.EtcdS3Endpoint)
    /\ ~HasPrefix(NewConfig.EtcdS3Endpoint, Aliyun)
    /\ ns.client[1].BucketLookup = "BucketLookupDNS"

----------------------------------------------------------------------------
(* NewS3 called again and again in one process. *)

MaxOpens == 2

\* configurations that differ in the CA and the skip-verify flag only
ShareConfigs ==
    {S3Control(<<"b">>, <<"s", "3">>, endpointCA, skipSSLVerify, TRUE, FALSE, <<>>) :
        endpointCA \in {<<>>, EncodeToString(<<"d">>)}, skipSSLVerify \in BOOLEAN}

ShareInit ==
    /\ IdleOthers
    /\ IdleNewS3

ShareOpen ==
    /\ ns.opens < MaxOpens
    /\ \E c \in ShareConfigs : NewS3Open(c)
    /\ UNCHANGED otherVars

ShareNext == ShareOpen \/ NewCheck \/ NewReturn

SpecShare == ShareInit /\ [][ShareNext]_vars

\* the TLS settings a handle works with: those of the transport of its client
TLSOf(h) ==
    IF h.client.Transport = "http.DefaultTransport" THEN defaultTransport ELSE NoTLS

\* C15: every handle works with the TLS settings of its own configuration
\* (one opened without a CA and without skip-verify verifies against the
\* default roots), and with the ones it had when it was returned.
C15_HandlesKeepOwnTLS ==
    \A i \in 1..Len(handles) :
        LET h == handles[i]
        IN  /\ (h.config.EtcdS3EndpointCA = <<>> /\ ~h.config.EtcdS3SkipSSLVerify)
                 => ~SkipsVerification(TLSOf(h))
                    /\ (TLSOf(h) = NoTLS \/ TLSOf(h)[1].RootCAs = <<>>)
            /\ TLSOf(h) = h.tlsAtOpen

----------------------------------------------------------------------------
(* Download: the restore path. *)

\* C16: the restore path differs from the one Download started with only
\* when the file at the full local path holds exactly the size the object
\* reported, and then it is that path; and a Download that has returned an
\* error, or nil after a failed fetch, has left the restore path as it was.
C16_RestorePathChangesOnlyOnSuccess ==
    /\ (dl.pc # "idle" /\ config.ClusterResetRestorePath # dl.startPath) =>
          /\ config.ClusterResetRestorePath = PathJoin(SnapshotDir, dl.startPath)
          /\ \E f \in localFiles :
               /\ f.path = config.ClusterResetRestorePath
               /\ f.size = dl.size
          /\ \E o \in bucket : o.Key = dl.key /\ o.Size = dl.size
    /\ (dl.pc = "done" /\ (dl.err # "nil" \/ dl.fetchFailed)) =>
          config.ClusterResetRestorePath = dl.startPath

====
